---- MODULE Spec2Model ----
(***************************************************************************)
(* Valro task pipeline: the Intake Handler (lambda-backend/                *)
(* lambda_function.py, in-memory TASKS), the Processing Handler            *)
(* (lambda-backend/worker_lambda.py) and the task-store helpers            *)
(* (lambda-backend/dynamodb_helpers.py, the DynamoDB table).               *)
(*                                                                         *)
(* Python dicts and DynamoDB items are functions from attribute names to   *)
(* values; an attribute that was never written is not in the DOMAIN.       *)
(* Timestamps (ts, created_at, updated_at) are left out of the items,      *)
(* except created_at where GET /tasks is checked on its own (SpecList).    *)
(* SpecCorrelate checks invoke_agent's vendor/email correlation on its own.*)
(***************************************************************************)
EXTENDS Integers, Sequences, FiniteSets, TLC

\* ------------------------------------------------------------------ bounds
MaxInvocations == 3

\* longest vendor list and longest email list of an agent reply
MaxVendors == 2

MaxEmails == 3

\* most tasks in the store that GET /tasks lists
MaxTasks == 3

\* most invocations of the agent entrypoint in one process, and most
\* sendEmail calls the agent makes in one invocation
MaxAgentInvocations == 3

MaxSends == 2

Workers == {"w1", "w2"}

TaskIds == {"t1", "t2"}

\* ------------------------------------------------------------ input domains
\* Python None, as a field of an event or of a request body
None == "<None>"

Descriptions == {"Find me a landscaper"}

\* what a caller can put in the description of a request body
DescriptionInputs == Descriptions \cup {"", None}

\* process_task events: every task id with a description, and every way of
\* leaving task_id or description empty or out
ProcessEvents ==
    { [task_id |-> t, description |-> d] : t \in TaskIds, d \in Descriptions }
    \cup { [task_id |-> "t1", description |-> d] : d \in {"", None} }
    \cup { [task_id |-> t, description |-> "Find me a landscaper"] : t \in {"", None} }
    \cup { [task_id |-> None, description |-> None] }

\* str(e) of an exception raised inside invoke_agent's try block by the
\* agent runtime client, the read of its response stream or json.loads of a
\* malformed payload; the text of an exception may be empty, and a non-empty
\* text takes the path of the non-200 reply below
ErrTexts == {""}

\* str(e) of an exception raised by a DynamoDB call
StoreErrText == "StoreUnavailable"

\* response bodies of the agent runtime (basic_agent.invoke's return value)
AgentBodies ==
    { [response |-> "Outreach sent to each vendor",
       vendors |-> << [id |-> "vendor_1", email |-> "a"],
                      [id |-> "vendor_2", email |-> "b"] >>,
       emails |-> << [recipient |-> "a"], [recipient |-> "a"],
                     [recipient |-> "c"] >>,
       emails_sent |-> 3],
      [error |-> "Memory not configured"] }

\* outcomes of bedrock_agentcore_client.invoke_agent_runtime + stream read
AgentReplies ==
    { [kind |-> "raise", text |-> e] : e \in ErrTexts }
    \cup { [kind |-> "reply", statusCode |-> 200, body |-> b] : b \in AgentBodies }
    \cup { [kind |-> "reply", statusCode |-> 500, body |-> [error |-> "Memory not configured"]] }

\* request threads of the agent process: invocations that can overlap
Invokers == {"i1", "i2"}

\* addresses the agent calls sendEmail with
SendInputs == {"a", "b"}

\* what getVendors finds in VENDOR_DATABASE
VendorListing ==
    << [id |-> "vendor_1", email |-> "a"], [id |-> "vendor_2", email |-> "b"] >>

\* every sequence over S of length at most n
SeqsUpTo(S, n) == UNION { [1..k -> S] : k \in 0..n }

\* vendor records as getVendors tracks them: each has an id and an email
\* address; two vendors may share an address
VendorRecords ==
    { [id |-> "vendor_1", email |-> "a"], [id |-> "vendor_2", email |-> "b"],
      [id |-> "vendor_3", email |-> "a"] }

\* email records as sendEmail tracks them: the recipient is whatever string
\* the tool was called with, a vendor's address or not
EmailRecords ==
    { [recipient |-> "a", subject |-> "first"],
      [recipient |-> "a", subject |-> "second"],
      [recipient |-> "b", subject |-> "first"],
      [recipient |-> "c", subject |-> "first"],
      [recipient |-> "", subject |-> "first"] }

\* 200 bodies of the agent runtime over every vendor list and email list
CorrelationBodies ==
    { [response |-> "Outreach sent to each vendor", vendors |-> vs,
       emails |-> es, emails_sent |-> Len(es)] :
         vs \in SeqsUpTo(VendorRecords, MaxVendors),
         es \in SeqsUpTo(EmailRecords, MaxEmails) }

\* task ids in the order handle_create_task inserted them into TASKS
InsertionOrder == << "t1", "t2", "t3", "t4", "t5" >>

\* created_at values: datetime.now(timezone.utc).isoformat() strings, which
\* compare as str in the order of the instants they denote; the wall clock
\* can repeat a value or step back between two creations
Timestamps == 0..MaxTasks

\* ------------------------------------------------------------ dict helpers
\* Python truthiness of a str-or-None value: `not x`
Falsy(x) == x \in {"", None}

\* dict.get(k, default)
Get(d, k, default) == IF k \in DOMAIN d THEN d[k] ELSE default

\* d updated with the attributes of upd (upd wins)
Put(d, upd) == upd @@ d

\* `"vendor" in text.lower()` over the response texts of AgentBodies
MentionsVendor(text) == text \in {"Outreach sent to each vendor"}

Event(message, detail, type) ==
    [message |-> message, detail |-> detail, type |-> type]

\* --------------------------------------------------- dynamodb_helpers.py
\* the item an update_item call works on: DynamoDB creates the item from
\* its key when it does not exist
ItemOrKey(tbl, task_id) ==
    IF task_id \in DOMAIN tbl THEN tbl[task_id] ELSE [id |-> task_id]

\* get_task: response.get('Item'); << >> stands for None (no such item, or
\* the get_item call raised and the except returned None), << item >> for
\* the item
get_task(tbl, task_id, store_ok) ==
    IF store_ok /\ task_id \in DOMAIN tbl THEN << tbl[task_id] >> ELSE << >>

\* a status update that puts a whole new item under the key
update_task_status_PutItem(item, status, error_message) ==
    [id |-> item.id, status |-> status]

\* update_task_status: SET #status = :status [, error_message = :error_message]
update_task_status(item, status, error_message) ==
    IF ~Falsy(error_message)
    THEN Put(item, [status |-> status, error_message |-> error_message])
    ELSE Put(item, [status |-> status])

\* an update that replaces the log by the new event
add_task_event_Overwrite(item, message, detail, event_type) ==
    Put(item, [events |-> << Event(message, detail, event_type) >>])

\* an update that puts the new event in front of the log
add_task_event_Prepend(item, message, detail, event_type) ==
    Put(item, [events |-> << Event(message, detail, event_type) >>
                              \o Get(item, "events", << >>)])

\* add_task_event: SET events = list_append(if_not_exists(events, []), [event])
add_task_event(item, message, detail, event_type) ==
    Put(item, [events |-> Append(Get(item, "events", << >>),
                                 Event(message, detail, event_type))])

\* an update that leaves out an empty agent_response
update_agent_response_SkipEmpty(item, agent_response, vendors, emails_sent) ==
    IF agent_response = "" THEN Put(item, [emails_sent |-> emails_sent])
    ELSE Put(item, [agent_response |-> agent_response,
                    emails_sent |-> emails_sent, vendors |-> vendors])

\* update_task_with_agent_response: SET agent_response, emails_sent [, vendors]
update_task_with_agent_response(item, agent_response, vendors, emails_sent) ==
    IF vendors # << >>
    THEN Put(item, [agent_response |-> agent_response,
                    emails_sent |-> emails_sent, vendors |-> vendors])
    ELSE Put(item, [agent_response |-> agent_response,
                    emails_sent |-> emails_sent])

\* table with the item of task_id replaced
TableWith(tbl, task_id, item) ==
    [t \in DOMAIN tbl \cup {task_id} |-> IF t = task_id THEN item ELSE tbl[t]]

\* ------------------------------------------------------ worker_lambda.py
\* a filter that stops at the first email sent to the vendor
EmailsTo_FirstOnly(emails, vendor_email) ==
    LET to == SelectSeq(emails,
                  LAMBDA e : Get(e, "recipient", None) = vendor_email)
    IN IF to = << >> THEN << >> ELSE << to[1] >>

\* [e for e in emails if e.get('recipient') == vendor_email]
RECURSIVE EmailsTo(_, _)
EmailsTo(emails, vendor_email) ==
    IF emails = << >> THEN << >>
    ELSE LET rest == EmailsTo(Tail(emails), vendor_email)
         IN IF Get(Head(emails), "recipient", None) = vendor_email
            THEN << Head(emails) >> \o rest
            ELSE rest

\* for vendor in vendors: vendor['emails'] = [...]
CorrelateVendors(vendors, emails) ==
    [i \in 1..Len(vendors) |->
        Put(vendors[i], [emails |-> EmailsTo(emails, Get(vendors[i], "email", ""))])]

\* invoke_agent's return value for a 200 reply with this body
AgentResult(body) ==
    [response |-> Get(body, "response", ""),
     vendors |-> CorrelateVendors(Get(body, "vendors", << >>),
                                  Get(body, "emails", << >>)),
     emails_sent |-> Get(body, "emails_sent", 0)]

\* str(e) of the exception invoke_agent raises for this reply ("" when none)
AgentErrorText(reply) ==
    CASE reply.kind = "raise" -> reply.text
      [] reply.kind = "reply" /\ reply.statusCode # 200 -> "Agent returned status 500"
      [] OTHER -> ""

AgentSucceeds(reply) == reply.kind = "reply" /\ reply.statusCode = 200

\* a validation that forgets the description
MissingFields_IdOnly(task_id, description) == Falsy(task_id)

\* `if not task_id or not description`
MissingFields(task_id, description) == Falsy(task_id) \/ Falsy(description)

\* a lookup whose result is never tested
TaskNotFound_Never(task) == FALSE

\* `if not task` after get_task
TaskNotFound(task) == task = << >>

\* ---------------------------------------------------- lambda_function.py
\* a validation that only rejects a missing description
ValidDescription_NoneOnly(description) == description # None

\* `if not description` in handle_create_task: the request is accepted
ValidDescription(description) == ~Falsy(description)

\* the task dict built by handle_create_task (lines 86-102)
NewTask(task_id, description) ==
    [id |-> task_id, description |-> description, status |-> "processing",
     vendors |-> << >>, quotes |-> << >>, emails_sent |-> 0,
     events |-> << Event("Task created", "", "info") >>]

\* task["events"].append(...)
AppendEvent(task, ev) == Put(task, [events |-> Append(task.events, ev)])

\* _invoke_agent, the 200 branch (lines 230-250)
AgentCompleted(task, body) ==
    LET done == AppendEvent(
                    Put(task, [status |-> "completed",
                               agent_response |-> Get(body, "response", "")]),
                    Event("Agent completed task", "", "success"))
    IN IF MentionsVendor(Get(body, "response", ""))
       THEN AppendEvent(done,
                Event("Vendors contacted - awaiting responses", "", "info"))
       ELSE done

\* _invoke_agent, the except branch (lines 254-264)
AgentFailed(task, text) ==
    AppendEvent(Put(task, [status |-> "error"]),
                Event("Agent error: ", text, "error"))

\* _invoke_agent's effect on TASKS; it raises exactly when the reply is not
\* a success, and updates nothing when TASKS has no such task
intake_invoke_agent(tasks, task_id, reply) ==
    IF task_id \notin DOMAIN tasks THEN tasks
    ELSE TableWith(tasks, task_id,
             IF AgentSucceeds(reply)
             THEN AgentCompleted(tasks[task_id], reply.body)
             ELSE AgentFailed(tasks[task_id], AgentErrorText(reply)))

\* handle_create_task, hand-off accepted (lines 119-125)
HandoffQueued(task) ==
    Put(AppendEvent(task, Event("Agent queued for processing", "", "info")),
        [status |-> "queued"])

\* handle_create_task, fallback succeeded (lines 131-135)
FallbackSucceeded(task) ==
    AppendEvent(task,
        Event("Agent invoked synchronously after async invoke failed", "",
              "warning"))

\* a fallback failure that sets the status and logs nothing
FallbackFailed_NoEvent(task, text) == Put(task, [status |-> "error"])

\* handle_create_task, fallback raised e2 (lines 136-143)
FallbackFailed(task, text) ==
    AppendEvent(Put(task, [status |-> "error"]),
                Event("Error invoking agent: ", text, "error"))

\* the status code handle_create_task answers with (lines 148-159)
CreateStatusCode(task) == IF task.status = "queued" THEN 202 ELSE 200

\* the body handle_create_task answers with (lines 149-159)
CreateBody(task) ==
    [id |-> task.id, status |-> task.status,
     message |-> IF task.status = "queued" THEN "Task queued for processing"
                 ELSE "Task created successfully"]

\* request bodies of POST /tasks
CreateBodies ==
    { [description |-> d] : d \in DescriptionInputs } \cup { [other |-> "x"] }

NoResult == [response |-> "", vendors |-> << >>, emails_sent |-> 0]

NoBody == [none |-> TRUE]

\* basic_agent.py lines 24-27 and 177-180: empty tracking
NoExecutions == [vendors |-> << >>, emails |-> << >>]

\* an entrypoint thread before its first invocation: sent is the record of
\* the sendEmail calls of its current invocation, in call order
IdleInvoker == [pc |-> "idle", sent |-> << >>, result |-> << >>, n |-> 0]

NoResponse == [statusCode |-> 0, body |-> [none |-> TRUE]]

NoRequest ==
    [op |-> "none", req |-> [none |-> TRUE], statusCode |-> 0,
     body |-> [none |-> TRUE], task_id |-> None, handoff |-> "none",
     agent |-> "none"]

IdleWorker ==
    [pc |-> "idle", task_id |-> None, description |-> None, source |-> "",
     result |-> NoResult, agent_ok |-> FALSE, store_failed |-> FALSE, err |-> "",
     resp |-> NoResponse, writes |-> 0, calls |-> 0]

\* ------------------------------------------------------------------- state
VARIABLES
    TASKS,       \* lambda_function.TASKS: the Intake Handler's in-memory store
    table,       \* the DynamoDB table behind dynamodb_helpers
    handoffs,    \* hand-off payloads accepted by lambda_client.invoke
    worker,      \* the Processing Handler invocations, one record per slot
    api,         \* the last Intake Handler request and its response
    agentCalls,  \* number of invoke_agent_runtime calls made so far
    invocations  \* number of requests and handler invocations so far

\* locals of the functions that are also checked on their own
VARIABLES
    response_body,  \* invoke_agent: the parsed body of the agent runtime's reply
    agent_response  \* invoke_agent's return value: << >> until it returns

\* the agent process (basic_agent.py)
VARIABLES
    tool_executions,  \* the module-level dict that tracks vendors and emails
    agent_runs        \* the invocations of the entrypoint, one record per thread

locals == << response_body, agent_response, tool_executions, agent_runs >>

vars == << TASKS, table, handoffs, worker, api, agentCalls, invocations, locals >>

TypeOK ==
    /\ DOMAIN TASKS \subseteq TaskIds
    /\ DOMAIN table \subseteq TaskIds
    /\ DOMAIN worker = Workers
    /\ agentCalls \in 0..MaxInvocations
    /\ invocations \in 0..MaxInvocations

Init ==
    /\ TASKS = << >>
    /\ table = << >>
    /\ handoffs = {}
    /\ worker = [w \in Workers |-> IdleWorker]
    /\ api = NoRequest
    /\ agentCalls = 0
    /\ invocations = 0
    /\ response_body = NoBody
    /\ agent_response = << >>
    /\ tool_executions = NoExecutions
    /\ agent_runs = [i \in Invokers |-> IdleInvoker]

\* ---------------------------------------------------------- Task Store
\* dynamodb_helpers.create_task: put_item of the task it is given.  No caller
\* of it is in the repository; the task given is a new record as the helpers
\* document it (status pending, one seed event) under a fresh id (ids are
\* uuid4 values, so a put never lands on an existing item; ids are
\* interchangeable, so the table's first item is the one named t1)
create_task(task_id, description) ==
    /\ invocations < MaxInvocations
    /\ task_id \notin DOMAIN table
    /\ (task_id = "t2" => "t1" \in DOMAIN table)
    /\ table' = TableWith(table, task_id,
                    [id |-> task_id, description |-> description,
                     status |-> "pending", vendors |-> << >>, emails_sent |-> 0,
                     events |-> << Event("Task created", "", "info") >>])
    /\ invocations' = invocations + 1
    /\ UNCHANGED << TASKS, handoffs, worker, api, agentCalls, locals >>

\* ------------------------------------------------- Processing Handler
SetWorker(w, upd) == worker' = [worker EXCEPT ![w] = Put(@, upd)]

WorkerResponse(statusCode, body) == [statusCode |-> statusCode, body |-> body]

\* an invocation slot is free when no invocation is running in it; the
\* response of the invocation that ran there stays readable until the slot
\* takes the next one, which always goes to the first free slot
Free(w) == worker[w].pc \in {"idle", "done"}

FirstFree(w) == Free(w) /\ (w = "w2" => ~Free("w1"))

\* worker_lambda.lambda_handler, entry and input validation (lines 38-48)
WorkerEnter(w, task_id, description, source) ==
    IF MissingFields(task_id, description)
    THEN worker' = [worker EXCEPT ![w] =
             Put(IdleWorker, [pc |-> "done", task_id |-> task_id,
                  description |-> description, source |-> source,
                  resp |-> WorkerResponse(400,
                               [error |-> "Missing task_id or description"])])]
    ELSE worker' = [worker EXCEPT ![w] =
             Put(IdleWorker, [pc |-> "get_task", task_id |-> task_id,
                  description |-> description, source |-> source])]

\* the hand-off payload is delivered to the worker function
worker_receive_handoff(w, msg) ==
    /\ FirstFree(w)
    /\ invocations < MaxInvocations
    /\ msg \in handoffs
    /\ handoffs' = handoffs \ {msg}
    /\ WorkerEnter(w, msg.task_id, msg.description, "handoff")
    /\ invocations' = invocations + 1
    /\ UNCHANGED << TASKS, table, api, agentCalls, locals >>

\* the worker function is invoked with an event of the caller's choosing
worker_invoke(w, task_id, description) ==
    /\ FirstFree(w)
    /\ invocations < MaxInvocations
    /\ WorkerEnter(w, task_id, description, "direct")
    /\ invocations' = invocations + 1
    /\ UNCHANGED << TASKS, table, handoffs, api, agentCalls, locals >>

\* lines 52-58: task = get_task(task_id); if not task: return 404
worker_get_task(w, store_ok) ==
    /\ worker[w].pc = "get_task"
    /\ IF TaskNotFound(get_task(table, worker[w].task_id, store_ok))
       THEN SetWorker(w, [pc |-> "done", store_failed |-> ~store_ok,
                          resp |-> WorkerResponse(404, [error |-> "Task not found"])])
       ELSE SetWorker(w, [pc |-> "set_processing"])
    /\ UNCHANGED << TASKS, table, handoffs, api, agentCalls, invocations, locals >>

\* one update_item call of the try block: it either applies upd to the item
\* and the handler goes on to `next`, or raises and the handler enters the
\* except block with str(e)
StoreWrite(w, store_ok, item, next) ==
    /\ IF store_ok
       THEN /\ table' = TableWith(table, worker[w].task_id, item)
            /\ SetWorker(w, [pc |-> next, writes |-> worker[w].writes + 1])
       ELSE /\ table' = table
            /\ SetWorker(w, [pc |-> "record_error", err |-> StoreErrText,
                             store_failed |-> TRUE,
                             writes |-> worker[w].writes + 1])
    /\ UNCHANGED << TASKS, handoffs, api, agentCalls, invocations, locals >>

\* line 62: update_task_status(task_id, "processing")
worker_set_processing(w, store_ok) ==
    /\ worker[w].pc = "set_processing"
    /\ StoreWrite(w, store_ok,
           update_task_status(ItemOrKey(table, worker[w].task_id), "processing", None),
           "add_started")

\* line 63: add_task_event(task_id, "Agent processing started", "info")
worker_add_started(w, store_ok) ==
    /\ worker[w].pc = "add_started"
    /\ StoreWrite(w, store_ok,
           add_task_event(ItemOrKey(table, worker[w].task_id),
                          "Agent processing started", "", "info"),
           "invoke_agent")

\* an agent call that is tried a second time when the first attempt fails
worker_invoke_agent_Retry(w, reply) ==
    /\ worker[w].pc = "invoke_agent"
    /\ IF AgentSucceeds(reply)
       THEN SetWorker(w, [pc |-> "write_response", agent_ok |-> TRUE,
                          result |-> AgentResult(reply.body),
                          calls |-> worker[w].calls + 1])
       ELSE SetWorker(w, [pc |-> IF worker[w].calls = 0 THEN "invoke_agent"
                                 ELSE "record_error",
                          err |-> AgentErrorText(reply),
                          calls |-> worker[w].calls + 1])
    /\ agentCalls' = agentCalls + 1
    /\ UNCHANGED << TASKS, table, handoffs, api, invocations, locals >>

\* line 66: agent_response = invoke_agent(task_id, description)
worker_invoke_agent(w, reply) ==
    /\ worker[w].pc = "invoke_agent"
    /\ IF AgentSucceeds(reply)
       THEN SetWorker(w, [pc |-> "write_response", agent_ok |-> TRUE,
                          result |-> AgentResult(reply.body),
                          calls |-> worker[w].calls + 1])
       ELSE SetWorker(w, [pc |-> "record_error", err |-> AgentErrorText(reply),
                          calls |-> worker[w].calls + 1])
    /\ agentCalls' = agentCalls + 1
    /\ UNCHANGED << TASKS, table, handoffs, api, invocations, locals >>

\* lines 69-74: update_task_with_agent_response(...)
worker_write_response(w, store_ok) ==
    /\ worker[w].pc = "write_response"
    /\ StoreWrite(w, store_ok,
           update_task_with_agent_response(ItemOrKey(table, worker[w].task_id),
               worker[w].result.response, worker[w].result.vendors,
               worker[w].result.emails_sent),
           "set_completed")

\* line 77: update_task_status(task_id, "completed")
worker_set_completed(w, store_ok) ==
    /\ worker[w].pc = "set_completed"
    /\ StoreWrite(w, store_ok,
           update_task_status(ItemOrKey(table, worker[w].task_id), "completed", None),
           "add_completed")

\* lines 78-89: add_task_event(..., "success"); return 200
worker_add_completed(w, store_ok) ==
    /\ worker[w].pc = "add_completed"
    /\ IF store_ok
       THEN /\ table' = TableWith(table, worker[w].task_id,
                           add_task_event(ItemOrKey(table, worker[w].task_id),
                               "Agent completed task successfully", "", "success"))
            /\ SetWorker(w, [pc |-> "done", writes |-> worker[w].writes + 1,
                             resp |-> WorkerResponse(200,
                                 [task_id |-> worker[w].task_id,
                                  status |-> "completed",
                                  message |-> "Agent processing completed"])])
       ELSE /\ table' = table
            /\ SetWorker(w, [pc |-> "record_error", err |-> StoreErrText,
                             store_failed |-> TRUE,
                             writes |-> worker[w].writes + 1])
    /\ UNCHANGED << TASKS, handoffs, api, agentCalls, invocations, locals >>

\* an except block that lets the exception out: the invocation ends with no
\* response
ErrorResponse_Unhandled(w) == NoResponse

\* lines 101-108: the 500 the except block returns
ErrorResponse(w) ==
    WorkerResponse(500, [task_id |-> worker[w].task_id, status |-> "error",
                         error |-> worker[w].err])

\* an except block that goes on to append the error event after its status
\* write has failed
worker_record_error_ThenEvent(w, store_ok) ==
    /\ worker[w].pc = "record_error"
    /\ table' = IF store_ok
                THEN TableWith(table, worker[w].task_id,
                         update_task_status(ItemOrKey(table, worker[w].task_id),
                                            "error", worker[w].err))
                ELSE table
    /\ SetWorker(w, [pc |-> "add_error_event", writes |-> worker[w].writes + 1,
                     store_failed |-> (worker[w].store_failed \/ ~store_ok)])
    /\ UNCHANGED << TASKS, handoffs, api, agentCalls, invocations, locals >>

\* lines 91-96: except: update_task_status(task_id, "error", error_message=str(e))
worker_record_error(w, store_ok) ==
    /\ worker[w].pc = "record_error"
    /\ IF store_ok
       THEN /\ table' = TableWith(table, worker[w].task_id,
                           update_task_status(ItemOrKey(table, worker[w].task_id),
                                              "error", worker[w].err))
            /\ SetWorker(w, [pc |-> "add_error_event",
                             writes |-> worker[w].writes + 1])
       ELSE /\ table' = table
            /\ SetWorker(w, [pc |-> "done", writes |-> worker[w].writes + 1,
                             store_failed |-> (worker[w].store_failed \/ ~store_ok),
                     resp |-> ErrorResponse(w)])
    /\ UNCHANGED << TASKS, handoffs, api, agentCalls, invocations, locals >>

\* lines 97-108: add_task_event(task_id, f"Agent error: {str(e)}", "error");
\* return 500 whether or not the append raised
worker_add_error_event(w, store_ok) ==
    /\ worker[w].pc = "add_error_event"
    /\ table' = IF store_ok
                THEN TableWith(table, worker[w].task_id,
                         add_task_event(ItemOrKey(table, worker[w].task_id),
                                        "Agent error: ", worker[w].err, "error"))
                ELSE table
    /\ SetWorker(w, [pc |-> "done", writes |-> worker[w].writes + 1,
                     store_failed |-> (worker[w].store_failed \/ ~store_ok),
                     resp |-> ErrorResponse(w)])
    /\ UNCHANGED << TASKS, handoffs, api, agentCalls, invocations, locals >>

\* ------------------------------------------------------- Intake Handler
\* the last request (op, req), the response to it (statusCode, body), the id
\* of the task it created or addressed, and what the collaborators did during
\* it: handoff is "ok" / "raised" for lambda_client.invoke, agent is "ok" /
\* "failed" for invoke_agent_runtime, "none" when the call was not made
Api(op, req, statusCode, body, task_id, handoff, agent) ==
    [op |-> op, req |-> req, statusCode |-> statusCode, body |-> body,
     task_id |-> task_id, handoff |-> handoff, agent |-> agent]

\* POST /tasks with a description that fails validation (lines 78-82)
handle_create_task_invalid(body) ==
    /\ ~ValidDescription(Get(body, "description", ""))
    /\ invocations < MaxInvocations
    /\ api' = Api("create", body, 400, [error |-> "Description is required"],
                  None, "none", "none")
    /\ invocations' = invocations + 1
    /\ UNCHANGED << TASKS, table, handoffs, worker, agentCalls, locals >>

\* a hand-off that is accepted and followed by a direct agent call all the same
handle_create_task_queued_AlsoDirect(body, task_id) ==
    LET description == Get(body, "description", "")
        task == HandoffQueued(NewTask(task_id, description))
    IN /\ ValidDescription(description)
       /\ invocations < MaxInvocations
       /\ task_id \notin DOMAIN TASKS
       /\ TASKS' = TableWith(TASKS, task_id, task)
       /\ handoffs' = handoffs \cup
              { [action |-> "process_task", task_id |-> task_id,
                 description |-> description] }
       /\ agentCalls' = agentCalls + 1
       /\ api' = Api("create", body, CreateStatusCode(task), CreateBody(task),
                     task_id, "ok", "none")
       /\ invocations' = invocations + 1
       /\ UNCHANGED << table, worker, locals >>

\* POST /tasks, lambda_client.invoke accepted the payload (lines 84-125, 145-153)
handle_create_task_queued(body, task_id) ==
    LET description == Get(body, "description", "")
        task == HandoffQueued(NewTask(task_id, description))
    IN /\ ValidDescription(description)
       /\ invocations < MaxInvocations
       /\ task_id \notin DOMAIN TASKS
       /\ TASKS' = TableWith(TASKS, task_id, task)
       /\ handoffs' = handoffs \cup
              { [action |-> "process_task", task_id |-> task_id,
                 description |-> description] }
       /\ api' = Api("create", body, CreateStatusCode(task), CreateBody(task),
                     task_id, "ok", "none")
       /\ invocations' = invocations + 1
       /\ UNCHANGED << table, worker, agentCalls, locals >>

\* POST /tasks, lambda_client.invoke raised: synchronous fallback
\* (lines 84-111, 126-159)
handle_create_task_fallback(body, task_id, reply) ==
    LET description == Get(body, "description", "")
        created == TableWith(TASKS, task_id, NewTask(task_id, description))
        invoked == intake_invoke_agent(created, task_id, reply)
        task == IF AgentSucceeds(reply)
                THEN FallbackSucceeded(invoked[task_id])
                ELSE FallbackFailed(invoked[task_id], AgentErrorText(reply))
    IN /\ ValidDescription(description)
       /\ invocations < MaxInvocations
       /\ task_id \notin DOMAIN TASKS
       /\ TASKS' = TableWith(TASKS, task_id, task)
       /\ agentCalls' = agentCalls + 1
       /\ api' = Api("create", body, CreateStatusCode(task), CreateBody(task),
                     task_id, "raised",
                     IF AgentSucceeds(reply) THEN "ok" ELSE "failed")
       /\ invocations' = invocations + 1
       /\ UNCHANGED << table, handoffs, worker, locals >>

\* lambda_handler's process_task branch (lines 49-59)
ProcessTask(task_id, description, reply) ==
    LET req == [task_id |-> task_id, description |-> description]
    IN IF MissingFields(task_id, description)
       THEN /\ api' = Api("process_task", req, 400,
                          [error |-> "Missing task_id or description for process_task"],
                          task_id, "none", "none")
            /\ UNCHANGED << TASKS, agentCalls >>
       ELSE /\ TASKS' = intake_invoke_agent(TASKS, task_id, reply)
            /\ agentCalls' = agentCalls + 1
            /\ api' = IF AgentSucceeds(reply)
                      THEN Api("process_task", req, 200,
                               [ok |-> TRUE, task_id |-> task_id],
                               task_id, "none", "ok")
                      ELSE Api("process_task", req, 500,
                               [error |-> AgentErrorText(reply)],
                               task_id, "none", "failed")

\* the Intake Handler is invoked with a process_task event of the caller's
\* choosing
process_task(task_id, description, reply) ==
    /\ invocations < MaxInvocations
    /\ ProcessTask(task_id, description, reply)
    /\ invocations' = invocations + 1
    /\ UNCHANGED << table, handoffs, worker, locals >>

\* the hand-off payload is delivered to the Intake Handler's own function
\* (WORKER_LAMBDA_NAME defaults to AWS_LAMBDA_FUNCTION_NAME, line 21)
process_task_receive_handoff(msg, reply) ==
    /\ invocations < MaxInvocations
    /\ msg \in handoffs
    /\ handoffs' = handoffs \ {msg}
    /\ ProcessTask(msg.task_id, msg.description, reply)
    /\ invocations' = invocations + 1
    /\ UNCHANGED << table, worker, locals >>

\* list(TASKS.values()): the tasks in insertion order
Values(tasks) ==
    [i \in 1..Cardinality(DOMAIN tasks) |-> tasks[InsertionOrder[i]]]

\* a sort that puts the oldest first
SortNewestFirst_Ascending(tasks_list) ==
    SortSeq(tasks_list, LAMBDA x, y : x.created_at < y.created_at)

\* tasks_list.sort(key=lambda x: x.get("created_at", ""), reverse=True):
\* list.sort is stable, also with reverse=True, so the last task of the list
\* lands behind every task whose key is not smaller
RECURSIVE SortNewestFirst(_)
SortNewestFirst(tasks_list) ==
    IF tasks_list = << >> THEN << >>
    ELSE LET n == Len(tasks_list)
             x == tasks_list[n]
             front == SortNewestFirst(SubSeq(tasks_list, 1, n - 1))
             k == Cardinality({ i \in 1..(n - 1) :
                      Get(front[i], "created_at", "") >= Get(x, "created_at", "") })
         IN SubSeq(front, 1, k) \o << x >> \o SubSeq(front, k + 1, n - 1)

\* GET /tasks (lines 65-66, 166-175)
handle_list_tasks ==
    /\ api' = Api("list", [none |-> TRUE], 200,
                  SortNewestFirst(Values(TASKS)), None, "none", "none")
    /\ UNCHANGED << TASKS, table, handoffs, worker, agentCalls, invocations,
                    locals >>

\* a 404 that does not say which id was asked for
GetTaskResponse_NoId(tasks, task_id) ==
    IF task_id \notin DOMAIN tasks
    THEN Api("get", [task_id |-> task_id], 404, [error |-> "Task not found"],
             task_id, "none", "none")
    ELSE Api("get", [task_id |-> task_id], 200, tasks[task_id],
             task_id, "none", "none")

\* handle_get_task's response (lines 178-187)
GetTaskResponse(tasks, task_id) ==
    IF task_id \notin DOMAIN tasks
    THEN Api("get", [task_id |-> task_id], 404,
             [error |-> "Task not found", task_id |-> task_id],
             task_id, "none", "none")
    ELSE Api("get", [task_id |-> task_id], 200, tasks[task_id],
             task_id, "none", "none")

\* a lookup that stamps the task it returns
handle_get_task_Touch(task_id) ==
    /\ invocations < MaxInvocations
    /\ api' = GetTaskResponse(TASKS, task_id)
    /\ TASKS' = IF task_id \in DOMAIN TASKS
                THEN TableWith(TASKS, task_id,
                         Put(TASKS[task_id], [read |-> TRUE]))
                ELSE TASKS
    /\ invocations' = invocations + 1
    /\ UNCHANGED << table, handoffs, worker, agentCalls, locals >>

\* GET /tasks/{id}
handle_get_task(task_id) ==
    /\ invocations < MaxInvocations
    /\ api' = GetTaskResponse(TASKS, task_id)
    /\ invocations' = invocations + 1
    /\ UNCHANGED << TASKS, table, handoffs, worker, agentCalls, locals >>

\* ------------------------------------------------------------------- Next
Next ==
    \/ \E t \in TaskIds, d \in Descriptions : create_task(t, d)
    \/ \E b \in CreateBodies : handle_create_task_invalid(b)
    \/ \E b \in CreateBodies, t \in TaskIds : handle_create_task_queued(b, t)
    \/ \E b \in CreateBodies, t \in TaskIds, r \in AgentReplies :
          handle_create_task_fallback(b, t, r)
    \/ \E e \in ProcessEvents, r \in AgentReplies :
          process_task(e.task_id, e.description, r)
    \/ \E m \in handoffs, r \in AgentReplies : process_task_receive_handoff(m, r)
    \/ \E t \in TaskIds : handle_get_task(t)
    \/ \E w \in Workers, m \in handoffs : worker_receive_handoff(w, m)
    \/ \E w \in Workers, e \in ProcessEvents :
          worker_invoke(w, e.task_id, e.description)
    \/ \E w \in Workers, ok \in BOOLEAN : worker_get_task(w, ok)
    \/ \E w \in Workers, ok \in BOOLEAN : worker_set_processing(w, ok)
    \/ \E w \in Workers, ok \in BOOLEAN : worker_add_started(w, ok)
    \/ \E w \in Workers, r \in AgentReplies : worker_invoke_agent(w, r)
    \/ \E w \in Workers, ok \in BOOLEAN : worker_write_response(w, ok)
    \/ \E w \in Workers, ok \in BOOLEAN : worker_set_completed(w, ok)
    \/ \E w \in Workers, ok \in BOOLEAN : worker_add_completed(w, ok)
    \/ \E w \in Workers, ok \in BOOLEAN : worker_record_error(w, ok)
    \/ \E w \in Workers, ok \in BOOLEAN : worker_add_error_event(w, ok)

Spec == Init /\ [][Next]_vars

\* ------------------------------------------- invoke_agent on its own
\* invoke_agent has read a 200 reply and parsed its body (lines 135-157)
Init_Correlate ==
    /\ TASKS = << >>
    /\ table = << >>
    /\ handoffs = {}
    /\ worker = [w \in Workers |-> IdleWorker]
    /\ api = NoRequest
    /\ agentCalls = 0
    /\ invocations = 0
    /\ response_body \in CorrelationBodies
    /\ agent_response = << >>
    /\ tool_executions = NoExecutions
    /\ agent_runs = [i \in Invokers |-> IdleInvoker]

\* worker_lambda.invoke_agent, lines 159-181: extract, correlate, return
invoke_agent ==
    /\ agent_response = << >>
    /\ agent_response' = << AgentResult(response_body) >>
    /\ UNCHANGED << TASKS, table, handoffs, worker, api, agentCalls,
                    invocations, response_body, tool_executions, agent_runs >>

Next_Correlate == invoke_agent

SpecCorrelate == Init_Correlate /\ [][Next_Correlate]_vars

\* ---------------------------------------------- GET /tasks on its own
\* the task of an accepted POST /tasks, with its created_at (line 92)
CreatedTask(task_id, created_at) ==
    Put(HandoffQueued(NewTask(task_id, "Find me a landscaper")),
        [created_at |-> created_at])

\* TASKS after up to MaxTasks accepted POST /tasks requests
ListStores ==
    UNION { { [t \in { InsertionOrder[i] : i \in 1..n } |->
                 CreatedTask(t, at[CHOOSE i \in 1..n : InsertionOrder[i] = t])] :
              at \in [1..n -> Timestamps] } : n \in 0..MaxTasks }

Init_List ==
    /\ TASKS \in ListStores
    /\ table = << >>
    /\ handoffs = {}
    /\ worker = [w \in Workers |-> IdleWorker]
    /\ api = NoRequest
    /\ agentCalls = 0
    /\ invocations = 0
    /\ response_body = NoBody
    /\ agent_response = << >>
    /\ tool_executions = NoExecutions
    /\ agent_runs = [i \in Invokers |-> IdleInvoker]

Next_List == handle_list_tasks

SpecList == Init_List /\ [][Next_List]_vars

\* ------------------------------------------------ the agent on its own
\* sendEmail's email_record (lines 127-132)
EmailRecord(to) == [recipient |-> to, subject |-> "Quote request"]

\* number of invocations of the entrypoint so far
AgentInvocations == agent_runs["i1"].n + agent_runs["i2"].n

SetInvoker(i, upd) == agent_runs' = [agent_runs EXCEPT ![i] = Put(@, upd)]

AgentFrame ==
    UNCHANGED << TASKS, table, handoffs, worker, api, agentCalls, invocations,
                 response_body, agent_response >>

\* invoke, lines 173-222: a request thread enters the entrypoint, which
\* rebinds the global tool_executions to a new empty dict and runs the agent
invoke(i) ==
    /\ agent_runs[i].pc \in {"idle", "done"}
    /\ AgentInvocations < MaxAgentInvocations
    /\ tool_executions' = NoExecutions
    /\ SetInvoker(i, [pc |-> "running", sent |-> << >>, result |-> << >>,
                      n |-> agent_runs[i].n + 1])
    /\ AgentFrame

\* getVendors, line 92: tool_executions['vendors'] = vendors
getVendors(i) ==
    /\ agent_runs[i].pc = "running"
    /\ tool_executions' = Put(tool_executions, [vendors |-> VendorListing])
    /\ agent_runs' = agent_runs
    /\ AgentFrame

\* sendEmail, lines 127-133: tool_executions['emails'].append(email_record)
sendEmail(i, to) ==
    /\ agent_runs[i].pc = "running"
    /\ Len(agent_runs[i].sent) < MaxSends
    /\ tool_executions' =
          Put(tool_executions,
              [emails |-> Append(tool_executions.emails, EmailRecord(to))])
    /\ SetInvoker(i, [sent |-> Append(agent_runs[i].sent, EmailRecord(to))])
    /\ AgentFrame

\* invoke, lines 224-233: the return value is read from the global
invoke_return(i) ==
    /\ agent_runs[i].pc = "running"
    /\ SetInvoker(i, [pc |-> "done",
           result |-> << [response |-> "Outreach sent to each vendor",
                          vendors |-> tool_executions.vendors,
                          emails |-> tool_executions.emails,
                          emails_sent |-> Len(tool_executions.emails)] >>])
    /\ tool_executions' = tool_executions
    /\ AgentFrame

Next_Agent ==
    \/ \E i \in Invokers : invoke(i)
    \/ \E i \in Invokers : getVendors(i)
    \/ \E i \in Invokers, to \in SendInputs : sendEmail(i, to)
    \/ \E i \in Invokers : invoke_return(i)

SpecAgent == Init /\ [][Next_Agent]_vars

\* ================================================================ claims
Terminal == {"completed", "error"}

\* the invocation in slot w returns in this step
Returns(w) == worker[w].pc # "done" /\ worker'[w].pc = "done"

\* an invocation enters slot w in this step
Enters(w) == Free(w) /\ worker'[w] # worker[w]

\* the invocation of this slot made its agent call and the call failed
AgentCallFailed(slot) == slot.calls = 1 /\ ~slot.agent_ok

\* position of the first event with this message, 0 when there is none
RECURSIVE FirstIndex(_, _, _)
FirstIndex(events, message, i) ==
    IF i > Len(events) THEN 0
    ELSE IF events[i].message = message THEN i
    ELSE FirstIndex(events, message, i + 1)

\* position of the last event with this message, 0 when there is none
RECURSIVE LastIndex(_, _, _)
LastIndex(events, message, i) ==
    IF i = 0 THEN 0
    ELSE IF events[i].message = message THEN i
    ELSE LastIndex(events, message, i - 1)

\* C1: once the status of a task in the task store is completed or error,
\* no later step (a store-write failure after the agent outcome and a further
\* hand-off for the same id included) changes it.
C1_TerminalStatusIsFinal ==
    [][ \A t \in DOMAIN table :
          ("status" \in DOMAIN table[t] /\ table[t].status \in Terminal)
              => table'[t].status = table[t].status
      ]_vars

\* C2: a createTask with a non-empty description whose hand-off is accepted
\* answers 202 with body status "pending", and the stored task is pending.
C2_AcceptedCreateIsPending ==
    (api.op = "create" /\ api.handoff = "ok")
        => /\ api.statusCode = 202
           /\ api.body.status = "pending"
           /\ TASKS[api.task_id].status = "pending"

\* C3: a createTask whose description is empty or missing answers 400 and
\* changes nothing: no task is stored, no hand-off issued, no agent call made.
C3_InvalidCreateChangesNothing ==
    [][ ( /\ api' # api
          /\ api'.op = "create"
          /\ Falsy(Get(api'.req, "description", "")) )
        => /\ api'.statusCode = 400
           /\ TASKS' = TASKS
           /\ table' = table
           /\ handoffs' = handoffs
           /\ agentCalls' = agentCalls
      ]_vars

\* a rejected createTask, with a task already in the store
C3_Witness ==
    /\ api.op = "create"
    /\ Falsy(Get(api.req, "description", ""))
    /\ api.statusCode = 400
    /\ DOMAIN TASKS # {}

\* C4: when createTask returns for a valid description, the stored task has
\* status pending or error and its events are the seed event followed by at
\* most one hand-off-result event.
C4_CreatedTaskShape ==
    (api.op = "create" /\ api.task_id # None)
        => /\ TASKS[api.task_id].status \in {"pending", "error"}
           /\ Len(TASKS[api.task_id].events) \in {1, 2}
           /\ TASKS[api.task_id].events[1].message = "Task created"

C6_SuccessLeavesCompleted ==
    [][ \A w \in Workers :
          (Returns(w) /\ worker'[w].resp.statusCode = 200)
            => LET item == table'[worker[w].task_id]
                   started == FirstIndex(item.events, "Agent processing started", 1)
                   completed == LastIndex(item.events,
                                    "Agent completed task successfully",
                                    Len(item.events))
               IN /\ item.status = "completed"
                  /\ "agent_response" \in DOMAIN item
                  /\ 0 < started
                  /\ started < completed
      ]_vars

\* C7: when a processTask invocation returns after its agent call failed and
\* every store call of the invocation succeeded, the task has status error
\* and a non-empty error_message, and the invocation wrote no agent result.
C7_AgentFailureRecorded ==
    [][ \A w \in Workers :
          ( /\ Returns(w)
            /\ AgentCallFailed(worker'[w])
            /\ ~worker'[w].store_failed )
            => LET item == table'[worker[w].task_id]
               IN /\ item.status = "error"
                  /\ "error_message" \in DOMAIN item
                  /\ item.error_message # ""
      ]_vars

\* C8: a processTask for an id that is not in the store answers 404 at the
\* lookup, having made no store write and no agent call.
C8_UnknownIdNoEffect ==
    [][ \A w \in Workers :
          ( /\ worker[w].pc = "get_task"
            /\ worker'[w] # worker[w]
            /\ worker[w].task_id \notin DOMAIN table )
            => /\ worker'[w].pc = "done"
               /\ worker'[w].resp.statusCode = 404
               /\ worker'[w].writes = 0
               /\ worker'[w].calls = 0
               /\ table' = table
               /\ agentCalls' = agentCalls
      ]_vars

\* a 404 for an unknown id while the store holds another task
C8_Witness ==
    \E w \in Workers :
        /\ worker[w].pc = "done"
        /\ worker[w].resp.statusCode = 404
        /\ worker[w].task_id \notin DOMAIN table
        /\ DOMAIN table # {}

\* C9: a processTask with a missing or empty task_id or description answers
\* 400, in the Processing Handler and in the Intake Handler's process_task
\* branch, and mutates no task and makes no agent call.
C9_MissingFieldsNoEffect ==
    [][ /\ \A w \in Workers :
             ( /\ Enters(w)
               /\ Falsy(worker'[w].task_id) \/ Falsy(worker'[w].description) )
               => /\ worker'[w].pc = "done"
                  /\ worker'[w].resp.statusCode = 400
                  /\ worker'[w].calls = 0
                  /\ table' = table
                  /\ agentCalls' = agentCalls
        /\ ( /\ api' # api
             /\ api'.op = "process_task"
             /\ Falsy(api'.req.task_id) \/ Falsy(api'.req.description) )
             => /\ api'.statusCode = 400
                /\ TASKS' = TASKS
                /\ agentCalls' = agentCalls
      ]_vars

\* a 400 from the Processing Handler while the store holds a task
C9_Witness ==
    \E w \in Workers :
        /\ worker[w].pc = "done"
        /\ worker[w].resp.statusCode = 400
        /\ Falsy(worker[w].description)
        /\ DOMAIN table # {}

\* C10: once the Processing Handler has finished the hand-off of a created
\* task without a store or agent failure, GET /tasks/{id} on the Intake
\* Handler shows the task completed.
C10_EndToEndCompleted ==
    \A w \in Workers :
        ( /\ worker[w].pc = "done"
          /\ worker[w].source = "handoff"
          /\ ~worker[w].store_failed
          /\ ~AgentCallFailed(worker[w]) )
            => LET got == GetTaskResponse(TASKS, worker[w].task_id)
               IN /\ got.statusCode = 200
                  /\ got.body.status = "completed"

\* positions of the emails sent to this address
SentTo(emails, address) ==
    { j \in 1..Len(emails) : emails[j].recipient = address }

\* the k-th smallest position of a set of positions
Kth(positions, k) ==
    CHOOSE j \in positions : Cardinality({ m \in positions : m <= j }) = k

\* C11: after invoke_agent's correlation the vendors are the reply's vendors
\* in the reply's order, each with an emails attribute that holds exactly the
\* reply's emails addressed to it, every occurrence, in the reply's order; an
\* email whose recipient is no vendor's address is attached to no vendor.
C11_CorrelationIsFilterJoin ==
    agent_response # << >>
        => LET vendors == response_body.vendors
               emails == response_body.emails
               out == agent_response[1].vendors
           IN /\ Len(out) = Len(vendors)
              /\ \A i \in 1..Len(vendors) :
                    LET sent == SentTo(emails, vendors[i].email)
                    IN /\ DOMAIN out[i] = DOMAIN vendors[i] \cup {"emails"}
                       /\ \A k \in DOMAIN vendors[i] : out[i][k] = vendors[i][k]
                       /\ Len(out[i].emails) = Cardinality(sent)
                       /\ \A k \in 1..Len(out[i].emails) :
                             out[i].emails[k] = emails[Kth(sent, k)]
              /\ \A j \in 1..Len(emails) :
                    (\A i \in 1..Len(vendors) :
                         vendors[i].email # emails[j].recipient)
                      => \A i \in 1..Len(out) :
                            \A k \in 1..Len(out[i].emails) :
                                out[i].emails[k] # emails[j]

\* vendors a and b correlated with two emails to a and one to nobody's
\* address: a has both of its emails in order, b has none
C11_Witness ==
    /\ agent_response # << >>
    /\ Len(response_body.vendors) = 2
    /\ response_body.vendors[1].email = "a"
    /\ response_body.vendors[2].email = "b"
    /\ response_body.emails =
          << [recipient |-> "a", subject |-> "first"],
             [recipient |-> "a", subject |-> "second"],
             [recipient |-> "c", subject |-> "first"] >>
    /\ Len(agent_response[1].vendors[1].emails) = 2
    /\ agent_response[1].vendors[2].emails = << >>

\* the created_at values of the stored tasks are pairwise distinct
DistinctTimestamps(tasks) ==
    \A t, u \in DOMAIN tasks : t # u => tasks[t].created_at # tasks[u].created_at

\* C12: GET /tasks answers 200 and leaves the store as it was; when the
\* stored tasks have pairwise distinct created_at values, the body holds
\* every stored task exactly once, newest created_at first, strictly
\* descending.
C12_ListNewestFirst ==
    [][ (api' # api /\ api'.op = "list")
        => LET body == api'.body
           IN /\ api'.statusCode = 200
              /\ TASKS' = TASKS
              /\ DistinctTimestamps(TASKS)
                    => /\ Len(body) = Cardinality(DOMAIN TASKS)
                       /\ \A t \in DOMAIN TASKS :
                             Cardinality({ i \in 1..Len(body) : body[i] = TASKS[t] }) = 1
                       /\ \A i, j \in 1..Len(body) :
                             i < j => body[i].created_at > body[j].created_at
      ]_vars

\* a listing of three tasks with distinct timestamps of which the first
\* created is not the oldest
C12_Witness ==
    /\ api.op = "list"
    /\ Cardinality(DOMAIN TASKS) = 3
    /\ DistinctTimestamps(TASKS)
    /\ TASKS["t1"].created_at > TASKS["t2"].created_at
    /\ TASKS["t2"].created_at < TASKS["t3"].created_at
    /\ Len(api.body) = 3

\* this step is a GET /tasks/{id} request: of the steps that start a request
\* or an invocation, the Intake Handler's are those that leave the worker
\* slots and the table alone, and api'.op says which kind it was
GetStep ==
    /\ invocations' # invocations
    /\ worker' = worker
    /\ table' = table
    /\ api'.op = "get"

\* C13: GET /tasks/{id} for an id that no createTask stored answers 404 with
\* error "Task not found" and the id asked for; for an id a createTask stored
\* it answers 200 with that task; either way the store is left as it was.
C13_GetTaskAnswers ==
    [][ GetStep
        => LET id == api'.req.task_id
           IN /\ TASKS' = TASKS
              /\ id \notin DOMAIN TASKS
                    => /\ api'.statusCode = 404
                       /\ api'.body = [error |-> "Task not found", task_id |-> id]
              /\ id \in DOMAIN TASKS
                    => /\ api'.statusCode = 200
                       /\ api'.body = TASKS[id]
                       /\ api'.body.id = id
      ]_vars

\* a 404 for an unknown id while the store holds another task
C13_Witness ==
    /\ api.op = "get"
    /\ api.statusCode = 404
    /\ api.body.task_id = api.req.task_id
    /\ DOMAIN TASKS # {}

\* C14: a GET /tasks/{id} changes no attribute of any task, and answers
\* exactly as the GET of the same id before it when no task was written in
\* between (every write to TASKS is made by a request that replaces api, so
\* api still holding the earlier GET means TASKS is as that GET saw it).
C14_ReadsIdempotent ==
    [][ GetStep
        => /\ TASKS' = TASKS
           /\ (api.op = "get" /\ api.req.task_id = api'.req.task_id)
                 => /\ api'.statusCode = api.statusCode
                    /\ api'.body = api.body
      ]_vars

\* a GET that returned a task which the agent had already completed
C14_Witness ==
    /\ api.op = "get"
    /\ api.statusCode = 200
    /\ api.body.status = "completed"
    /\ invocations = MaxInvocations

\* log `earlier` is the beginning of log `later`
IsPrefix(earlier, later) ==
    /\ Len(earlier) <= Len(later)
    /\ SubSeq(later, 1, Len(earlier)) = earlier

\* in every task of this store, the log after the step begins with the log
\* before the step
LogsOnlyGrow(before, after) ==
    \A t \in DOMAIN before :
        "events" \in DOMAIN before[t]
            => /\ t \in DOMAIN after
               /\ "events" \in DOMAIN after[t]
               /\ IsPrefix(before[t].events, after[t].events)

\* C15: no step of the Intake Handler or of the Processing Handler, in any
\* interleaving, shortens the events log of a task or changes an event that
\* is in it: the log after the step has the log before the step as a prefix.
C15_EventsAppendOnly ==
    [][ LogsOnlyGrow(TASKS, TASKS') /\ LogsOnlyGrow(table, table') ]_vars

\* two overlapping invocations for one task have both appended to its log
C15_Witness ==
    \E t \in DOMAIN table :
        /\ Len(table[t].events) >= 4
        /\ \A w \in Workers : worker[w].task_id = t /\ worker[w].writes >= 2

\* the invocation in slot w completes update_task_with_agent_response in
\* this step
WritesAgentResult(w) ==
    /\ worker[w].pc = "write_response"
    /\ worker'[w].pc = "set_completed"

\* C16: the Processing Handler writes agent_response, emails_sent and vendors
\* of a task at most once, and only after its agent call succeeded: a step
\* that writes them finds no agent_response in the task yet (no task is
\* created with one, and nothing else writes it to the table).
C16_AgentResultWrittenOnce ==
    [][ \A w \in Workers :
          WritesAgentResult(w)
            => /\ worker[w].agent_ok
               /\ worker[w].calls = 1
               /\ "agent_response" \notin DOMAIN table[worker[w].task_id]
      ]_vars

\* a step of the invocation running in slot w
WorkerStep(w) ==
    \/ \E ok \in BOOLEAN : worker_get_task(w, ok)
    \/ \E ok \in BOOLEAN : worker_set_processing(w, ok)
    \/ \E ok \in BOOLEAN : worker_add_started(w, ok)
    \/ \E r \in AgentReplies : worker_invoke_agent(w, r)
    \/ \E ok \in BOOLEAN : worker_write_response(w, ok)
    \/ \E ok \in BOOLEAN : worker_set_completed(w, ok)
    \/ \E ok \in BOOLEAN : worker_add_completed(w, ok)
    \/ \E ok \in BOOLEAN : worker_record_error(w, ok)
    \/ \E ok \in BOOLEAN : worker_add_error_event(w, ok)

\* C17: whatever the store, the hand-off call and the agent do, every Intake
\* Handler request is answered with a status code and a body, every
\* Processing Handler invocation that has ended returned a status code and a
\* body, one that has not ended can go on, and an invocation whose agent call
\* or store write failed returned 500 (404 when the lookup itself failed),
\* also when the write that records the error failed.
C17_AlwaysStructuredResponse ==
    /\ api.op # "none"
          => /\ api.statusCode \in {200, 202, 400, 404, 500}
             /\ api.body # NoRequest.body
    /\ api.agent = "failed" /\ api.op = "process_task" => api.statusCode = 500
    /\ \A w \in Workers :
          /\ worker[w].pc = "done"
                => /\ worker[w].resp.statusCode \in {200, 400, 404, 500}
                   /\ worker[w].resp.body # NoResponse.body
          /\ (worker[w].pc = "done"
                /\ (worker[w].store_failed \/ AgentCallFailed(worker[w])))
                => worker[w].resp.statusCode =
                      IF worker[w].writes = 0 /\ worker[w].calls = 0
                      THEN 404 ELSE 500
          /\ worker[w].pc \notin {"idle", "done"} => ENABLED WorkerStep(w)

\* an invocation whose agent call failed and whose error-recording write
\* failed as well has returned 500
C17_Witness ==
    \E w \in Workers :
        /\ worker[w].pc = "done"
        /\ AgentCallFailed(worker[w])
        /\ worker[w].store_failed
        /\ worker[w].writes = 3
        /\ worker[w].resp.statusCode = 500

\* the invocation of this slot has ended and had found its task: it was
\* answered neither 400 nor 404
FoundItsTask(slot) ==
    slot.pc = "done" /\ slot.resp.statusCode \notin {400, 404}

\* C18 as stated: every processTask invocation that found its task has made
\* exactly one agent call when it ends, whatever its store writes did.
C18_ExactlyOneAgentCall ==
    \A w \in Workers : FoundItsTask(worker[w]) => worker[w].calls = 1

\* C18 as amended: a processTask invocation never makes more than one agent
\* call; it makes the call only after both writes before it (status
\* processing, started event) succeeded; an invocation that found its task
\* and ends without a failed store write has made exactly one call, and one
\* that ends with no call made has a failed store write and returned 500.
C18_AtMostOneAgentCall ==
    \A w \in Workers :
        /\ worker[w].calls \in {0, 1}
        /\ worker[w].pc = "invoke_agent"
              => /\ worker[w].calls = 0
                 /\ worker[w].writes = 2
                 /\ ~worker[w].store_failed
        /\ worker[w].pc \in {"write_response", "set_completed", "add_completed"}
              => worker[w].calls = 1
        /\ (FoundItsTask(worker[w]) /\ ~worker[w].store_failed)
              => worker[w].calls = 1
        /\ (FoundItsTask(worker[w]) /\ worker[w].calls = 0)
              => /\ worker[w].store_failed
                 /\ worker[w].resp.statusCode = 500

\* an invocation that found its task ended without an agent call: its write
\* of status processing or of the started event failed
C18_Witness ==
    \E w \in Workers :
        /\ FoundItsTask(worker[w])
        /\ worker[w].calls = 0
        /\ worker[w].store_failed
        /\ worker[w].task_id \in DOMAIN table

\* C19: a createTask triggers the processing of its task at most once: the
\* request issues at most one hand-off, for the task it has just created, and
\* makes at most one agent call itself, and never both; no other step issues
\* a hand-off, so no task is handed off twice.
C19_AtMostOneTrigger ==
    [][ LET issued == handoffs' \ handoffs
            direct == agentCalls' - agentCalls
        IN IF api' # api /\ api'.op = "create"
           THEN /\ Cardinality(issued) + direct <= 1
                /\ \A m \in issued :
                      /\ m.task_id = api'.task_id
                      /\ m.task_id \notin DOMAIN TASKS
                      /\ m.task_id \in DOMAIN TASKS'
                /\ api'.statusCode = 202 <=> issued # {}
                /\ api'.statusCode = 400 => (issued = {} /\ direct = 0)
           ELSE issued = {}
      ]_vars

\* a createTask whose hand-off raised made its one agent call directly and
\* left no hand-off behind
C19_Witness ==
    /\ api.op = "create"
    /\ api.handoff = "raised"
    /\ api.agent = "ok"
    /\ agentCalls = 1
    /\ handoffs = {}
    /\ TASKS[api.task_id].status = "completed"

\* the store writes the handler makes after a successful agent call
PostAgentWrites == {"write_response", "set_completed", "add_completed"}

\* C20: once the agent call of an invocation has been made, a store write of
\* the try block that fails changes nothing in the store and leads to one
\* attempt to write status error with the failure text as error_message; when
\* that attempt fails, the store is left as it is, the invocation makes no
\* further store write and returns 500; when it succeeds, the task has status
\* error and that error_message, and the invocation returns 500 after the
\* error event, appended or not.
C20_BestEffortErrorRecord ==
    [][ \A w \in Workers :
          LET before == worker[w]
              after == worker'[w]
              t == before.task_id
          IN (before.calls = 1 /\ after # before)
             => /\ (before.pc \in PostAgentWrites /\ after.store_failed)
                      => /\ after.pc = "record_error"
                         /\ after.err # ""
                         /\ table' = table
                /\ before.pc = "record_error"
                      => /\ after.pc \in {"done", "add_error_event"}
                         /\ after.writes = before.writes + 1
                         /\ after.pc = "done"
                               => /\ table' = table
                                  /\ after.store_failed
                                  /\ after.resp.statusCode = 500
                                  /\ after.resp.body.status = "error"
                         /\ after.pc = "add_error_event"
                               => /\ table'[t].status = "error"
                                  /\ before.err # ""
                                        => table'[t].error_message = before.err
                /\ before.pc = "add_error_event"
                      => /\ after.pc = "done"
                         /\ after.resp.statusCode = 500
      ]_vars

\* after a successful agent call the completed event could not be appended
\* and the error could not be recorded: the invocation returned 500 and the
\* task is left completed, with the agent's response
C20_Witness ==
    \E w \in Workers :
        /\ worker[w].pc = "done"
        /\ worker[w].agent_ok
        /\ worker[w].store_failed
        /\ worker[w].writes = 6
        /\ worker[w].resp.statusCode = 500
        /\ table[worker[w].task_id].status = "completed"
        /\ "agent_response" \in DOMAIN table[worker[w].task_id]

\* C21: the Intake Handler writes no status other than pending and error:
\* every task of TASKS, the store only the Intake Handler writes, has one of
\* the two in every state; processing and completed are the Processing
\* Handler's to write.
C21_IntakeWritesPendingOrError ==
    \A t \in DOMAIN TASKS : TASKS[t].status \in {"pending", "error"}

\* C22: a task of the table that has an error_message has status error.
C22_ErrorMessageOnlyOnError ==
    \A t \in DOMAIN table :
        "error_message" \in DOMAIN table[t] => table[t].status = "error"

\* the task t of this store keeps its id and its description in this step
KeepsIdentity(before, after, t) ==
    /\ t \in DOMAIN after
    /\ Get(after[t], "id", None) = t
    /\ before[t].id = t
    /\ Get(after[t], "description", None) = before[t].description

\* C23: every step that changes a stored task leaves the id and the
\* description of every task as they were and changes the one task the step
\* works on: in the table the task of an invocation that takes a step, in
\* TASKS the task the process_task request names.
C23_MutationsKeepIdentity ==
    [][ /\ \A t \in DOMAIN table :
             /\ KeepsIdentity(table, table', t)
             /\ table'[t] # table[t]
                   => \E w \in Workers :
                         /\ worker[w].task_id = t
                         /\ ~Free(w)
                         /\ worker'[w] # worker[w]
        /\ \A t \in DOMAIN TASKS :
             /\ KeepsIdentity(TASKS, TASKS', t)
             /\ TASKS'[t] # TASKS[t]
                   => (api'.op = "process_task" /\ api'.task_id = t)
      ]_vars

\* the table holds a task that an invocation has completed next to a task
\* that is as it was created
C23_Witness ==
    \E t, u \in DOMAIN table, w \in Workers :
        /\ worker[w].pc = "done"
        /\ worker[w].task_id = t
        /\ worker[w].resp.statusCode = 200
        /\ table[t].status = "completed"
        /\ table[u].status = "pending"
        /\ Len(table[u].events) = 1

\* C24: a task of the table whose status is completed has its agent_response
\* and its emails_sent, in every state of every interleaving.
C24_CompletedHasAgentResponse ==
    \A t \in DOMAIN table :
        table[t].status = "completed"
            => /\ "agent_response" \in DOMAIN table[t]
               /\ "emails_sent" \in DOMAIN table[t]

\* a task is completed, with the response of an agent that returned an empty
\* text, while the invocation has yet to append its completed event
C24_Witness ==
    \E w \in Workers :
        /\ worker[w].pc = "add_completed"
        /\ table[worker[w].task_id].status = "completed"
        /\ table[worker[w].task_id].agent_response = ""

\* C25: the first event of every stored task is the seed event "Task
\* created", in every state of every interleaving of the Intake Handler's
\* and the Processing Handler's appends.
C25_SeedEventFirst ==
    /\ \A t \in DOMAIN TASKS :
          /\ TASKS[t].events # << >>
          /\ TASKS[t].events[1] = Event("Task created", "", "info")
    /\ \A t \in DOMAIN table :
          /\ Get(table[t], "events", << >>) # << >>
          /\ table[t].events[1] = Event("Task created", "", "info")

\* a task of the table with appends of the Processing Handler behind its
\* seed event, and a task of TASKS with the hand-off event behind its own
C25_Witness ==
    /\ \E t \in DOMAIN table :
          /\ Len(table[t].events) >= 3
          /\ table[t].events[2].message = "Agent processing started"
    /\ \E t \in DOMAIN TASKS :
          /\ Len(TASKS[t].events) = 2
          /\ TASKS[t].events[2].message = "Agent queued for processing"

\* C26: the result an agent invocation returns carries exactly the records
\* of the sendEmail calls made during that invocation, in call order, and
\* their number as emails_sent, whatever other invocations ran before it or
\* overlap with it in the process.
C26_ResultTracksOwnEmails ==
    \A i \in Invokers :
        agent_runs[i].pc = "done"
            => /\ agent_runs[i].result[1].emails = agent_runs[i].sent
               /\ agent_runs[i].result[1].emails_sent = Len(agent_runs[i].sent)

====
